---- MODULE Spec2Model ----
(***************************************************************************)
(* Model of crawler/src/ads/ad-scraper.ts: the per-page ad capture         *)
(* pipeline (scrapeAdsOnPage, scrapeAd, scrapeAdContent,                   *)
(* getPrebidBidsForAd).                                                    *)
(*                                                                         *)
(* One page is processed by one scrapeAdsOnPage call.  Every await of the  *)
(* source is a step of the model; a collaborator (detection, chumbox       *)
(* splitting, the database client, the browser) either returns or throws,  *)
(* chosen nondeterministically.  The capture-and-persist sequence of       *)
(* scrapeAd (_crawlAd) and its timer are separate processes that race.     *)
(***************************************************************************)
EXTENDS Integers, Sequences, FiniteSets, TLC

\* ------------------------------------------------------------------ bounds
MaxPairs == 3          \* Ad Handle Pairs on one page, over all its candidates
MaxIFrames == 1        \* iframes inside one ad element
MaxMutations == 1      \* mutations matchDOMUpdateToAd may report
MaxDepth == 2          \* depth of the page under crawl (metadata.parentDepth)
Den == 2               \* raw coordinates are multiples of 1/Den pixel

\* -------------------------------------------------------- program constants
MinAdSize == 30        \* the 30 px gate of lines 118 and 255
margin == 150          \* line 273
maxPageCrawlDepth == 2 \* FLAGS.maxPageCrawlDepth (line 107), at the value 2

MaxCands == MaxPairs   \* candidates identifyAdsInDOM may report
MaxMembers == MaxPairs \* Ad Handle Pairs of one chumbox

\* An optional value (T | undefined) is a set with at most one element.
Undefined == {}
Some(v) == {v}
The(s) == CHOOSE v \in s : TRUE

\* ---------------------------------------------------------------- geometry
\* Math.floor and Math.ceil of a raw coordinate v/Den.
Floor(v) == v \div Den
Ceil(v) == 0 - ((0 - v) \div Den)
Max(a, b) == IF a >= b THEN a ELSE b

\* lines 265-270
adBBOf(abb) ==
  [left |-> Floor(abb.x), top |-> Floor(abb.y),
   height |-> Ceil(abb.height), width |-> Ceil(abb.width)]

\* A context box whose margins are not cut at the viewport's far edges.
contextBBUnclamped(adBB, viewport) ==
  LET contextLeft == Max(adBB.left - margin, 0)
      contextTop == Max(adBB.top - margin, 0)
  IN [left |-> contextLeft, top |-> contextTop,
      height |-> adBB.height + (adBB.top - contextTop) + margin,
      width |-> adBB.width + (adBB.left - contextLeft) + margin]

\* lines 273-292
contextBBOf(adBB, viewport) ==
  LET contextLeft == Max(adBB.left - margin, 0)
      contextTop == Max(adBB.top - margin, 0)
      marginTop == adBB.top - contextTop
      marginLeft == adBB.left - contextLeft
      marginBottom == IF adBB.top + adBB.height + margin < viewport.height
                      THEN margin
                      ELSE viewport.height - adBB.height - adBB.top
      marginRight == IF adBB.left + adBB.width + margin < viewport.width
                     THEN margin
                     ELSE viewport.width - adBB.width - adBB.left
  IN [left |-> contextLeft, top |-> contextTop,
      height |-> adBB.height + marginTop + marginBottom,
      width |-> adBB.width + marginLeft + marginRight]

\* lines 294-301
adInContextBBOf(adBB, contextBB) ==
  [left |-> adBB.left - contextBB.left, top |-> adBB.top - contextBB.top,
   height |-> adBB.height, width |-> adBB.width]

\* The bounding boxes the browser may report for an element (raw, in 1/Den
\* pixel): none, one below the size gate in each dimension, one at the gate,
\* and two ordinary ones, the second with fractional coordinates near the
\* viewport's edge.
NoBox == [present |-> FALSE, x |-> 0, y |-> 0, width |-> 0, height |-> 0]
Box(x, y, w, h) == [present |-> TRUE, x |-> x, y |-> y, width |-> w, height |-> h]
BoxInputs ==
  { NoBox,
    Box(10 * Den, 10 * Den, 100 * Den, MinAdSize * Den - 1),
    Box(10 * Den, 10 * Den, MinAdSize * Den - 1, 100 * Den),
    Box(0, 0, MinAdSize * Den, MinAdSize * Den),
    Box(200 * Den + 1, 500 * Den + 1, 300 * Den - 1, 250 * Den) }

\* Boxes that pass the size gate, placed along each axis of the viewport:
\* near the origin, in the middle, with the margin ending exactly at the far
\* edge, reaching past the far edge, larger than the viewport, and starting
\* before the origin; some coordinates are fractional.  Each entry is
\* <<offset, extent>>.
AlongX ==
  { <<10 * Den + 1, 100 * Den>>, <<200 * Den + 1, 100 * Den + 1>>,
    <<350 * Den, 100 * Den>>, <<450 * Den + 1, 100 * Den>>,
    <<0, 700 * Den>>, <<0 - (20 * Den + 1), 100 * Den>> }
AlongY ==
  { <<10 * Den + 1, 100 * Den>>, <<300 * Den + 1, 100 * Den + 1>>,
    <<550 * Den, 100 * Den>>, <<700 * Den + 1, 100 * Den>>,
    <<0, 900 * Den>>, <<0 - (20 * Den + 1), 100 * Den>> }
GeometryBoxes ==
  { Box(h[1], v[1], h[2], v[2]) : h \in AlongX, v \in AlongY }

NoViewport == [present |-> FALSE, width |-> 0, height |-> 0]
ViewportInputs == { NoViewport, [present |-> TRUE, width |-> 600, height |-> 800] }

\* What the browser does during one capture: the screenshot target's bounding
\* box, the viewport, and which call of the screenshot sub-step throws, if any
\* (line 247, line 303, lines 307-310).
Faults == {"none", "scrollIntoView", "screenshot", "sharp"}
Browsers == [box : BoxInputs, viewport : ViewportInputs, fault : Faults]
NominalBrowser ==
  [box |-> Box(200 * Den + 1, 500 * Den + 1, 300 * Den - 1, 250 * Den),
   viewport |-> [present |-> TRUE, width |-> 600, height |-> 800],
   fault |-> "none"]

\* lines 243-315: the screenshot sub-step of scrapeAdContent.  scrollOk,
\* shotOk and encodeOk say whether the scroll, page.screenshot() and the
\* sharp pipeline return (TRUE) or throw (FALSE).  The result is the pair of
\* locals the rest of the function reads, and the region handed to
\* sharp's extract (line 308) if the sub-step got that far.
ScreenshotStep(abb, viewport, withContext, scrollOk, shotOk, encodeOk) ==
  IF ~scrollOk \/ ~abb.present
    THEN [screenshotFailed |-> TRUE, adInContextBB |-> Undefined,
          extract |-> Undefined]
  ELSE IF abb.height < MinAdSize * Den \/ abb.width < MinAdSize * Den
    THEN [screenshotFailed |-> TRUE, adInContextBB |-> Undefined,
          extract |-> Undefined]
  ELSE IF ~viewport.present
    THEN [screenshotFailed |-> TRUE, adInContextBB |-> Undefined,
          extract |-> Undefined]
  ELSE LET adBB == adBBOf(abb)
           contextBB == contextBBOf(adBB, viewport)
           rel == IF withContext THEN Some(adInContextBBOf(adBB, contextBB))
                  ELSE Undefined
       IN [screenshotFailed |-> ~(shotOk /\ encodeOk), adInContextBB |-> rel,
           extract |-> IF shotOk
                         THEN Some(IF withContext THEN contextBB ELSE adBB)
                         ELSE Undefined]

\* ------------------------------------------------------------ bid extraction
\* A small document: the ad element, one descendant of it, one element
\* outside it, and one node that is not attached to the document.
Null == "null"
Document == "document"
Html == "html"
Body == "body"
AdEl == "ad"
Inner == "inner"
Other == "other"
Detached == "detached"
Nodes == {Document, Html, Body, AdEl, Inner, Other, Detached}
parentNode ==
  [n \in Nodes |->
     CASE n = Document -> Null
       [] n = Html -> Document
       [] n = Body -> Html
       [] n = AdEl -> Body
       [] n = Inner -> AdEl
       [] n = Other -> Body
       [] n = Detached -> Null]

\* lines 354-361: the loop of isChildOfAd.  The test inside the loop compares
\* `element`, not `current`, with the ad.
RECURSIVE isChildWalk(_, _, _)
isChildWalk(current, element, ad) ==
  IF current # Body /\ parentNode[current] # Null
    THEN IF element = ad THEN TRUE
         ELSE isChildWalk(parentNode[current], element, ad)
    ELSE FALSE

\* lines 347-362
isChildOfAd(element, ad) ==
  IF element = Null THEN FALSE
  ELSE IF element = ad THEN TRUE
  ELSE isChildWalk(element, element, ad)

\* lines 367-369: winningBids.filter(win => isChildOfAd(getElementById(win.adUnitCode)))
RECURSIVE FilterWins(_, _)
FilterWins(s, ad) ==
  IF s = <<>> THEN <<>>
  ELSE (IF isChildOfAd(Head(s).adUnitCode, ad) THEN <<Head(s)>> ELSE <<>>)
       \o FilterWins(Tail(s), ad)

\* lines 378-380: Object.keys(bidResponses).filter(key => isChildOfAd(getElementById(key)))
RECURSIVE FilterKeys(_, _)
FilterKeys(s, ad) ==
  IF s = <<>> THEN <<>>
  ELSE (IF isChildOfAd(Head(s).key, ad) THEN <<Head(s)>> ELSE <<>>)
       \o FilterKeys(Tail(s), ad)

\* Math.max over a non-empty list of prices, line 387
RECURSIVE MaxOf(_)
MaxOf(s) == IF Len(s) = 1 THEN s[1] ELSE Max(s[1], MaxOf(Tail(s)))

NoBids == [threw |-> FALSE, max_bid_price |-> Undefined, winning_bid |-> Undefined]
BidsThrew == [threw |-> TRUE, max_bid_price |-> Undefined, winning_bid |-> Undefined]

\* lines 339-391.  pbjs is the page's bidding library: whether the global
\* exists, which of its two query functions exist, and what they return
\* (adUnitCode and key are given as the node getElementById resolves them to).
getPrebidBidsForAd(pbjs, ad) ==
  IF ~pbjs.defined \/ ~pbjs.hasGetAllWinningBids THEN NoBids
  ELSE LET matchingWins == FilterWins(pbjs.winningBids, ad) IN
    IF matchingWins # <<>>
      THEN [threw |-> FALSE, max_bid_price |-> Some(matchingWins[1].cpm),
            winning_bid |-> Some(TRUE)]
    ELSE IF ~pbjs.hasGetBidResponses THEN BidsThrew
    ELSE LET matches == FilterKeys(pbjs.bidResponses, ad) IN
      IF matches = <<>> THEN NoBids
      ELSE [threw |-> FALSE, max_bid_price |-> Some(MaxOf(matches[1].bids)),
            winning_bid |-> Some(FALSE)]

Pbjs(d, w, r, wins, resp) ==
  [defined |-> d, hasGetAllWinningBids |-> w, hasGetBidResponses |-> r,
   winningBids |-> wins, bidResponses |-> resp]
Win(node, cpm) == [adUnitCode |-> node, cpm |-> cpm]
Unit(node, bids) == [key |-> node, bids |-> bids]

\* The bidding-library states a page may be in: no library, a library without
\* getAllWinningBids, a winning bid on the ad element, a library that has
\* getAllWinningBids but lacks getBidResponses, and losing bids on the ad.
NoLibrary == Pbjs(FALSE, FALSE, FALSE, <<>>, <<>>)
PbjsInputs ==
  { NoLibrary,
    Pbjs(TRUE, FALSE, TRUE, <<>>, <<>>),
    Pbjs(TRUE, TRUE, TRUE, <<Win(Other, 3), Win(AdEl, 5)>>, <<>>),
    Pbjs(TRUE, TRUE, FALSE, <<Win(Other, 3)>>, <<>>),
    Pbjs(TRUE, TRUE, TRUE, <<>>, <<Unit(Other, <<9>>), Unit(AdEl, <<2, 7>>)>>) }

\* What getAllWinningBids and getBidResponses may report on a page with the
\* whole library: up to two winning bids and up to two ad units (Object.keys
\* gives distinct keys), each on a node getElementById finds or on none.
BidNodes == {Null, AdEl, Inner, Other}
WinLists ==
  {<<>>} \cup { <<Win(n, 3)>> : n \in BidNodes }
         \cup { <<Win(n, 3), Win(m, 5)>> : n \in BidNodes, m \in BidNodes }
UnitLists ==
  {<<>>} \cup { <<Unit(n, <<2, 7>>)>> : n \in BidNodes }
         \cup UNION { { <<Unit(n, <<2, 7>>), Unit(m, <<9>>)>> :
                         m \in BidNodes \ {n} } : n \in BidNodes }
BidInputs == { Pbjs(TRUE, TRUE, TRUE, w, r) : w \in WinLists, r \in UnitLists }

\* ------------------------------------------------------------------- state
\* An Ad Handle Pair is named <<c, m>>: member m of candidate c.  A candidate
\* that is no chumbox has the one pair <<c, 1>>.
AllPairs == (1 .. MaxCands) \X (1 .. MaxMembers)

VARIABLES
  ads,            \* the page: per detected candidate, 0 (splitChumbox gives null)
                  \* or the number of Ad Handle Pairs of the chumbox
  pbjs,           \* the page's bidding library
  browser,        \* what the browser reports and does during a capture
  iframesInAd,    \* the iframes scrapeIFramesInElement finds in an ad element
  parentDepth,    \* metadata.parentDepth
  withContext,    \* FLAGS.screenshotAdsWithContext
  pc,             \* where scrapeAdsOnPage stands
  ci, mi,         \* the loop variables: candidate (line 65), pair (line 89)
  chumboxId,      \* line 69
  platform,       \* line 70
  adHandleToAdId, \* line 61, keyed by candidate
  bounds,         \* line 113: the click target's box as last read
  mutations,      \* line 134: mutations not yet inserted
  db,             \* the rows written so far, in order
  clicks,         \* the clickAd calls made so far, in order
  logged,         \* what the catch of line 143 logged
  result,         \* "running", "returned" or "raised"
  seqpc,          \* per pair: the await _crawlAd stands at
  timer,          \* per pair: "unset", "armed", "fired", "cleared"
  crawl,          \* per pair: the promise _crawlAd
  outcome,        \* per pair: the promise scrapeAd returns (line 210)
  local           \* per pair: the locals of _crawlAd and scrapeAdContent

pageVars == <<pc, ci, mi, chumboxId, platform, adHandleToAdId, bounds, mutations,
              clicks, logged, result>>
envVars == <<ads, pbjs, browser, iframesInAd, parentDepth, withContext>>
seqVars == <<seqpc, timer, crawl, outcome, local>>
vars == <<envVars, pageVars, db, seqVars>>

\* Promises
Pending == [state |-> "pending", value |-> 0, reason |-> "none"]
Resolved(v) == [state |-> "resolved", value |-> v, reason |-> "none"]
Rejected(e) == [state |-> "rejected", value |-> 0, reason |-> e]

TimeoutError == "timed out while crawling ad"

NoLocal ==
  [slept |-> FALSE, html |-> FALSE, screenshotFailed |-> FALSE,
   adInContextBB |-> Undefined, extract |-> Undefined,
   adContent |-> Undefined, adId |-> Undefined,
   iframes |-> 0,
   meta |-> [parentDepth |-> 0, chumboxId |-> Undefined, platform |-> Undefined]]

\* Rows.  A generated identifier is the position of the row.
NextId == Len(db) + 1
ChumboxRow(id, c, plat) ==
  [table |-> "chumbox", id |-> id, ad |-> <<c, 0>>, ad_id |-> 0,
   chumbox_id |-> Undefined, platform |-> Some(plat), depth |-> 0,
   content |-> Undefined]
AdRow(id, a, meta, content) ==
  [table |-> "ad", id |-> id, ad |-> a, ad_id |-> id,
   chumbox_id |-> meta.chumboxId, platform |-> meta.platform,
   depth |-> meta.parentDepth + 1, content |-> Some(content)]
\* A child row that is given its own identifier as its ad's.
ChildRowOwnId(table, id, a, adId) ==
  [table |-> table, id |-> id, ad |-> a, ad_id |-> id,
   chumbox_id |-> Undefined, platform |-> Undefined, depth |-> 0,
   content |-> Undefined]
ChildRow(table, id, a, adId) ==
  [table |-> table, id |-> id, ad |-> a, ad_id |-> adId,
   chumbox_id |-> Undefined, platform |-> Undefined, depth |-> 0,
   content |-> Undefined]

RECURSIVE SumPairs(_)
SumPairs(cands) ==
  IF cands = <<>> THEN 0
  ELSE (IF Head(cands) = 0 THEN 1 ELSE Head(cands)) + SumPairs(Tail(cands))

\* The pages: up to MaxPairs Ad Handle Pairs, in any grouping into candidates.
PageConfigs ==
  { cands \in UNION { [1 .. n -> 0 .. MaxMembers] : n \in 0 .. MaxCands } :
      SumPairs(cands) <= MaxPairs }

\* Either a page of any shape, at depth 1 or more, in an ordinary browser; or
\* a page at depth 0 with one ad, with every behaviour of the browser and of
\* the bidding library and both values of the context flag.
Init ==
  /\ \/ /\ ads \in PageConfigs
        /\ pbjs = NoLibrary
        /\ browser = NominalBrowser
        /\ iframesInAd \in 0 .. MaxIFrames
        /\ parentDepth \in 1 .. MaxDepth
        /\ withContext = FALSE
     \/ /\ ads = <<0>>
        /\ pbjs \in BidInputs
        /\ browser = NominalBrowser
        /\ iframesInAd = 0
        /\ parentDepth = 0
        /\ withContext = FALSE
     \/ /\ ads = <<0>>
        /\ pbjs = NoLibrary
        /\ browser \in [box : GeometryBoxes,
                        viewport : ViewportInputs \ {NoViewport},
                        fault : {"none"}]
        /\ iframesInAd = 0
        /\ parentDepth = 0
        /\ withContext \in BOOLEAN
     \/ /\ ads = <<0>>
        /\ pbjs \in PbjsInputs
        /\ browser \in Browsers
        /\ iframesInAd = 0
        /\ parentDepth = 0
        /\ withContext \in BOOLEAN
  /\ pc = "detect"
  /\ ci = 0
  /\ mi = 0
  /\ chumboxId = Undefined
  /\ platform = Undefined
  /\ adHandleToAdId = [c \in 1 .. MaxCands |-> Undefined]
  /\ bounds = NoBox
  /\ mutations = 0
  /\ db = <<>>
  /\ clicks = <<>>
  /\ logged = Undefined
  /\ result = "running"
  /\ seqpc = [a \in AllPairs |-> "idle"]
  /\ timer = [a \in AllPairs |-> "unset"]
  /\ crawl = [a \in AllPairs |-> Pending]
  /\ outcome = [a \in AllPairs |-> Pending]
  /\ local = [a \in AllPairs |-> NoLocal]

\* --------------------------------------------------------- scrapeAdsOnPage
Platforms == <<"taboola", "outbrain", "revcontent">>
PlatformOf(c) == Platforms[((c - 1) % 3) + 1]

\* lines 74-87: the length of adHandles for candidate c
NumPairs(c) == IF ads[c] = 0 THEN 1 ELSE ads[c]

\* A try block that opens only at the loop of line 65.
TryFromLoop ==
  {"split", "insertChumbox", "scrapeAd", "awaitScrapeAd",
   "boundingBox", "clickAd", "match", "insertAdDomain"}

\* lines 58-143: the steps of scrapeAdsOnPage that stand inside its try block
TryBlock ==
  {"detect", "split", "insertChumbox", "scrapeAd", "awaitScrapeAd",
   "boundingBox", "clickAd", "match", "insertAdDomain"}

\* lines 143-146: an exception thrown at `step`.  Inside the try block it is
\* logged and the function returns; outside it would reach the caller.
Throw(step, e) ==
  /\ pc' = "done"
  /\ IF step \in TryBlock
       THEN logged' = Some(e) /\ result' = "returned"
       ELSE logged' = logged /\ result' = "raised"
  /\ UNCHANGED <<ci, mi>>

Goto(p, c, m) ==
  /\ pc' = p
  /\ ci' = c
  /\ mi' = m
  /\ UNCHANGED <<logged, result>>

\* A candidate loop that leaves for the code after the loops as soon as one
\* candidate is finished.
ContinueToMatch ==
  IF mi < NumPairs(ci) THEN Goto("scrapeAd", ci, mi + 1)
  ELSE Goto("match", ci, mi)

\* lines 89 and 65: `continue`, or the end of the inner loop's body: the next
\* Ad Handle Pair, else the next candidate, else the code after the loops.
Continue ==
  IF mi < NumPairs(ci) THEN Goto("scrapeAd", ci, mi + 1)
  ELSE IF ci < Len(ads) THEN Goto("split", ci + 1, 0)
  ELSE Goto("match", ci, mi)

\* line 60
Detect ==
  /\ pc = "detect"
  /\ \E ok \in BOOLEAN :
       IF ok
         THEN IF Len(ads) = 0 THEN Goto("match", 0, 0) ELSE Goto("split", 1, 0)
         ELSE Throw("detect", "identifyAdsInDOM failed")
  /\ UNCHANGED <<envVars, bounds, chumboxId, platform, adHandleToAdId, mutations,
                 clicks, db, seqVars>>

\* A candidate loop whose chumboxId and platform were declared outside it.
SplitKeepsChumbox ==
  /\ pc = "split"
  /\ \E ok \in BOOLEAN :
       IF ok
         THEN IF ads[ci] > 0 THEN Goto("insertChumbox", ci, 0)
              ELSE Goto("scrapeAd", ci, 1)
         ELSE Throw("split", "splitChumbox failed")
  /\ UNCHANGED <<envVars, bounds, chumboxId, platform, adHandleToAdId, mutations,
                 clicks, db, seqVars>>

\* lines 68-74 and 84-87
Split ==
  /\ pc = "split"
  /\ \E ok \in BOOLEAN :
       IF ok
         THEN IF ads[ci] > 0 THEN Goto("insertChumbox", ci, 0)
              ELSE Goto("scrapeAd", ci, 1)
         ELSE Throw("split", "splitChumbox failed")
  /\ chumboxId' = Undefined
  /\ platform' = Undefined
  /\ UNCHANGED <<envVars, bounds, adHandleToAdId, mutations, clicks, db, seqVars>>

\* lines 76-83
InsertChumbox ==
  /\ pc = "insertChumbox"
  /\ \E ok \in BOOLEAN :
       IF ok
         THEN /\ db' = Append(db, ChumboxRow(NextId, ci, PlatformOf(ci)))
              /\ chumboxId' = Some(NextId)
              /\ platform' = Some(PlatformOf(ci))
              /\ Goto("scrapeAd", ci, 1)
         ELSE /\ Throw("insertChumbox", "insert chumbox failed")
              /\ UNCHANGED <<db, chumboxId, platform>>
  /\ UNCHANGED <<envVars, bounds, adHandleToAdId, mutations, clicks, seqVars>>

\* lines 95-101, 163-173 and 210: the call of scrapeAd.  It arms the timer,
\* starts _crawlAd, which runs up to its first await, and returns the race.
CallScrapeAd ==
  /\ pc = "scrapeAd"
  /\ LET a == <<ci, mi>> IN
       /\ seqpc[a] = "idle"
       /\ timer' = [timer EXCEPT ![a] = "armed"]
       /\ seqpc' = [seqpc EXCEPT ![a] = "scroll"]
       /\ local' = [local EXCEPT ![a] =
                      [NoLocal EXCEPT !.meta =
                         [parentDepth |-> parentDepth,
                          chumboxId |-> chumboxId,
                          platform |-> platform]]]
  /\ Goto("awaitScrapeAd", ci, mi)
  /\ UNCHANGED <<envVars, bounds, chumboxId, platform, adHandleToAdId, mutations,
                 clicks, db, crawl, outcome>>

\* A depth gate that is off by one.
AtMaxDepthStrict == parentDepth + 2 > 2 * maxPageCrawlDepth

\* line 107
AtMaxDepth == parentDepth + 2 >= 2 * maxPageCrawlDepth

\* A loop body that catches the failure of scrapeAd and carries on.
AwaitScrapeAdCarryOn ==
  /\ pc = "awaitScrapeAd"
  /\ LET p == outcome[<<ci, mi>>] IN
       /\ p.state # "pending"
       /\ adHandleToAdId' = [adHandleToAdId EXCEPT ![ci] = Some(p.value)]
       /\ IF AtMaxDepth THEN Continue ELSE Goto("boundingBox", ci, mi)
  /\ UNCHANGED <<envVars, bounds, chumboxId, platform, mutations, clicks, db, seqVars>>

\* A map that keeps the first identifier recorded for a candidate.
AwaitScrapeAdKeepFirst ==
  /\ pc = "awaitScrapeAd"
  /\ LET p == outcome[<<ci, mi>>] IN
       /\ p.state # "pending"
       /\ IF p.state = "resolved"
            THEN /\ adHandleToAdId' =
                      IF adHandleToAdId[ci] = Undefined
                        THEN [adHandleToAdId EXCEPT ![ci] = Some(p.value)]
                        ELSE adHandleToAdId
                 /\ IF AtMaxDepth THEN Continue ELSE Goto("boundingBox", ci, mi)
            ELSE /\ Throw("awaitScrapeAd", p.reason)
                 /\ UNCHANGED adHandleToAdId
  /\ UNCHANGED <<envVars, bounds, chumboxId, platform, mutations, clicks, db,
                 seqVars>>

\* lines 95-110: the await of scrapeAd settles.
AwaitScrapeAd ==
  /\ pc = "awaitScrapeAd"
  /\ LET p == outcome[<<ci, mi>>] IN
       /\ p.state # "pending"
       /\ IF p.state = "resolved"
            THEN /\ adHandleToAdId' = [adHandleToAdId EXCEPT ![ci] = Some(p.value)]
                 /\ IF AtMaxDepth THEN Continue ELSE Goto("boundingBox", ci, mi)
            ELSE /\ Throw("awaitScrapeAd", p.reason)
                 /\ UNCHANGED adHandleToAdId
  /\ UNCHANGED <<envVars, bounds, chumboxId, platform, mutations, clicks, db, seqVars>>

\* lines 113-121
ReadBounds ==
  /\ pc = "boundingBox"
  /\ \E ok \in BOOLEAN, b \in BoxInputs :
       IF ~ok THEN Throw("boundingBox", "boundingBox failed") /\ UNCHANGED bounds
       ELSE /\ bounds' = b
            /\ IF ~b.present THEN Continue
               ELSE IF b.height < MinAdSize * Den \/ b.width < MinAdSize * Den
                 THEN Continue
               ELSE Goto("clickAd", ci, mi)
  /\ UNCHANGED <<envVars, chumboxId, platform, adHandleToAdId, mutations,
                 clicks, db, seqVars>>

\* lines 124-131
ClickAd ==
  /\ pc = "clickAd"
  /\ clicks' = Append(clicks, [ad |-> <<ci, mi>>, depth |-> parentDepth,
                               adId |-> outcome[<<ci, mi>>].value])
  /\ \E ok \in BOOLEAN :
       IF ok THEN Continue ELSE Throw("clickAd", "clickAd failed")
  /\ UNCHANGED <<envVars, bounds, chumboxId, platform, adHandleToAdId, mutations,
                 db, seqVars>>

\* lines 134-135
Match ==
  /\ pc = "match"
  /\ \E ok \in BOOLEAN, n \in 0 .. MaxMutations :
       IF ok
         THEN /\ mutations' = n
              /\ IF n > 0 THEN Goto("insertAdDomain", ci, mi)
                 ELSE pc' = "done" /\ result' = "returned"
                      /\ UNCHANGED <<ci, mi, logged>>
         ELSE /\ Throw("match", "matchDOMUpdateToAd failed")
              /\ UNCHANGED mutations
  /\ UNCHANGED <<envVars, bounds, chumboxId, platform, adHandleToAdId, clicks, db,
                 seqVars>>

\* lines 136-141
InsertAdDomain ==
  /\ pc = "insertAdDomain"
  /\ \E ok \in BOOLEAN :
       IF ok
         THEN /\ db' = Append(db, ChildRow("ad_domain", NextId, <<0, 0>>, 0))
              /\ mutations' = mutations - 1
              /\ IF mutations > 1 THEN Goto("insertAdDomain", ci, mi)
                 ELSE pc' = "done" /\ result' = "returned"
                      /\ UNCHANGED <<ci, mi, logged>>
         ELSE /\ Throw("insertAdDomain", "insert ad_domain failed")
              /\ UNCHANGED <<db, mutations>>
  /\ UNCHANGED <<envVars, bounds, chumboxId, platform, adHandleToAdId, clicks, seqVars>>

\* ----------------------------------------------------------------- scrapeAd
\* A race in which the promise that settles last wins.
RaceLastWins(current, settled) == settled

\* line 210, Promise.race: the promise returned settles as the first of the
\* two that settles; a later settlement of the other one changes nothing.
Race(current, settled) ==
  IF current.state = "pending" THEN settled ELSE current

\* lines 203 and 206, clearTimeout: a timer that has not fired never will.
clearTimeout(t) == IF t = "armed" THEN "cleared" ELSE t

\* _crawlAd goes on to its next await.
SeqGoto(a, p, loc) ==
  /\ seqpc' = [seqpc EXCEPT ![a] = p]
  /\ local' = [local EXCEPT ![a] = loc]
  /\ UNCHANGED <<timer, crawl, outcome>>

\* lines 203-204: _crawlAd disarms the timer and returns adId.
SeqReturn(a, loc) ==
  /\ seqpc' = [seqpc EXCEPT ![a] = "returned"]
  /\ local' = [local EXCEPT ![a] = loc]
  /\ timer' = [timer EXCEPT ![a] = clearTimeout(@)]
  /\ crawl' = [crawl EXCEPT ![a] = Resolved(The(loc.adId))]
  /\ outcome' = [outcome EXCEPT ![a] = Race(@, Resolved(The(loc.adId)))]

\* A catch block that rethrows without clearTimeout.
SeqThrowNoClear(a, e) ==
  /\ seqpc' = [seqpc EXCEPT ![a] = "thrown"]
  /\ crawl' = [crawl EXCEPT ![a] = Rejected(e)]
  /\ outcome' = [outcome EXCEPT ![a] = Race(@, Rejected(e))]
  /\ UNCHANGED <<local, timer>>

\* lines 205-208: an exception inside _crawlAd: disarm the timer, rethrow.
SeqThrow(a, e) ==
  /\ seqpc' = [seqpc EXCEPT ![a] = "thrown"]
  /\ timer' = [timer EXCEPT ![a] = clearTimeout(@)]
  /\ crawl' = [crawl EXCEPT ![a] = Rejected(e)]
  /\ outcome' = [outcome EXCEPT ![a] = Race(@, Rejected(e))]
  /\ UNCHANGED local

\* createAsyncTimeout (util/timeout.js), as scrapeAd uses it: when the timer
\* fires, the promise it returned rejects with the message it was given.
createAsyncTimeout(message) == Rejected(message)

\* A scrapeAd that returns _crawlAd instead of the race: the timer fires and
\* nobody hears it.
TimerFireUnraced(a) ==
  /\ timer[a] = "armed"
  /\ timer' = [timer EXCEPT ![a] = "fired"]
  /\ UNCHANGED <<envVars, pageVars, db, seqpc, crawl, local, outcome>>

\* lines 163-164 and 210: the timer of createAsyncTimeout<number> fires.  Its
\* promise carries the message of line 164, which is no number, so it can
\* only reject with it.
TimerFire(a) ==
  /\ timer[a] = "armed"
  /\ timer' = [timer EXCEPT ![a] = "fired"]
  /\ outcome' = [outcome EXCEPT ![a] = Race(@, createAsyncTimeout(TimeoutError))]
  /\ UNCHANGED <<envVars, pageVars, db, seqpc, crawl, local>>

\* lines 171-173
SeqScroll(a) ==
  /\ seqpc[a] = "scroll"
  /\ \E ok \in BOOLEAN :
       IF ok THEN SeqGoto(a, "sleep", local[a])
       ELSE SeqThrow(a, "scrollIntoView failed")
  /\ UNCHANGED <<envVars, pageVars, db>>

\* lines 170 and 174: no sleep on a page deeper than 1
SeqSleep(a) ==
  /\ seqpc[a] = "sleep"
  /\ SeqGoto(a, "html", [local[a] EXCEPT !.slept = ~(local[a].meta.parentDepth > 1)])
  /\ UNCHANGED <<envVars, pageVars, db>>

\* line 236
SeqHtml(a) ==
  /\ seqpc[a] = "html"
  /\ \E ok \in BOOLEAN :
       IF ok THEN SeqGoto(a, "screenshot", [local[a] EXCEPT !.html = TRUE])
       ELSE SeqThrow(a, "outerHTML failed")
  /\ UNCHANGED <<envVars, pageVars, db>>

\* lines 243-315
SeqScreenshot(a) ==
  /\ seqpc[a] = "screenshot"
  /\ LET r == ScreenshotStep(browser.box, browser.viewport, withContext,
                               browser.fault # "scrollIntoView",
                               browser.fault # "screenshot",
                               browser.fault # "sharp")
       IN SeqGoto(a, "bids",
                  [local[a] EXCEPT !.screenshotFailed = r.screenshotFailed,
                                   !.adInContextBB = r.adInContextBB,
                                   !.extract = r.extract])
  /\ UNCHANGED <<envVars, pageVars, db>>

\* The optional field f of an optional record
Field(opt, f) == IF opt = Undefined THEN Undefined ELSE Some(The(opt)[f])

\* lines 319-331: the record scrapeAdContent returns
ScrapedAd(loc, prebid) ==
  [html |-> IF loc.html THEN Some("outerHTML") ELSE Undefined,
   screenshot |-> IF loc.screenshotFailed THEN Undefined ELSE Some("savePath"),
   screenshot_host |-> IF loc.screenshotFailed THEN Undefined
                       ELSE Some("screenshotHost"),
   max_bid_price |-> prebid.max_bid_price,
   winning_bid |-> prebid.winning_bid,
   with_context |-> withContext,
   bb_x |-> Field(loc.adInContextBB, "left"),
   bb_y |-> Field(loc.adInContextBB, "top"),
   bb_height |-> Field(loc.adInContextBB, "height"),
   bb_width |-> Field(loc.adInContextBB, "width")]

\* lines 317-331 and 177: getPrebidBidsForAd is awaited outside the try block
\* of scrapeAdContent, so an exception of it leaves scrapeAdContent and is
\* caught by _crawlAd.
SeqBids(a) ==
  /\ seqpc[a] = "bids"
  /\ LET prebid == getPrebidBidsForAd(pbjs, AdEl) IN
       IF prebid.threw THEN SeqThrow(a, "pbjs.getBidResponses is not a function")
       ELSE SeqGoto(a, "archiveAd",
                    [local[a] EXCEPT !.adContent = Some(ScrapedAd(local[a], prebid))])
  /\ UNCHANGED <<envVars, pageVars, db>>

\* lines 185-192
SeqArchiveAd(a) ==
  /\ seqpc[a] = "archiveAd"
  /\ \E ok \in BOOLEAN :
       IF ok
         THEN /\ db' = Append(db, AdRow(NextId, a, local[a].meta,
                                        The(local[a].adContent)))
              /\ SeqGoto(a, "extractExternalUrls",
                         [local[a] EXCEPT !.adId = Some(NextId)])
         ELSE /\ SeqThrow(a, "archiveAd failed")
              /\ UNCHANGED db
  /\ UNCHANGED <<envVars, pageVars>>

\* line 195
SeqExtractExternalUrls(a) ==
  /\ seqpc[a] = "extractExternalUrls"
  /\ \E ok \in BOOLEAN :
       IF ok THEN SeqGoto(a, "archiveExternalUrls", local[a])
       ELSE SeqThrow(a, "extractExternalUrls failed")
  /\ UNCHANGED <<envVars, pageVars, db>>

\* line 196
SeqArchiveExternalUrls(a) ==
  /\ seqpc[a] = "archiveExternalUrls"
  /\ \E ok \in BOOLEAN :
       IF ok
         THEN /\ db' = Append(db, ChildRow("external_urls", NextId, a,
                                           The(local[a].adId)))
              /\ SeqGoto(a, "scrapeIFrames", local[a])
         ELSE /\ SeqThrow(a, "archiveExternalUrls failed")
              /\ UNCHANGED db
  /\ UNCHANGED <<envVars, pageVars>>

\* lines 199-204: with no iframe the loop is skipped and _crawlAd returns.
SeqScrapeIFrames(a) ==
  /\ seqpc[a] = "scrapeIFrames"
  /\ \E ok \in BOOLEAN :
       IF ~ok THEN SeqThrow(a, "scrapeIFramesInElement failed")
       ELSE IF iframesInAd = 0 THEN SeqReturn(a, local[a])
       ELSE SeqGoto(a, "archiveScrapedIFrame",
                    [local[a] EXCEPT !.iframes = iframesInAd])
  /\ UNCHANGED <<envVars, pageVars, db>>

\* lines 200-204
SeqArchiveScrapedIFrame(a) ==
  /\ seqpc[a] = "archiveScrapedIFrame"
  /\ \E ok \in BOOLEAN :
       IF ok
         THEN /\ db' = Append(db, ChildRow("iframe", NextId, a, The(local[a].adId)))
              /\ LET loc == [local[a] EXCEPT !.iframes = @ - 1] IN
                   IF loc.iframes = 0 THEN SeqReturn(a, loc)
                   ELSE SeqGoto(a, "archiveScrapedIFrame", loc)
         ELSE /\ SeqThrow(a, "archiveScrapedIFrame failed")
              /\ UNCHANGED db
  /\ UNCHANGED <<envVars, pageVars>>

Sequence(a) ==
  \/ SeqScroll(a)
  \/ SeqSleep(a)
  \/ SeqHtml(a)
  \/ SeqScreenshot(a)
  \/ SeqBids(a)
  \/ SeqArchiveAd(a)
  \/ SeqExtractExternalUrls(a)
  \/ SeqArchiveExternalUrls(a)
  \/ SeqScrapeIFrames(a)
  \/ SeqArchiveScrapedIFrame(a)

Next ==
  \/ Detect
  \/ Split
  \/ InsertChumbox
  \/ CallScrapeAd
  \/ AwaitScrapeAd
  \/ ReadBounds
  \/ ClickAd
  \/ Match
  \/ InsertAdDomain
  \/ \E a \in AllPairs : Sequence(a)
  \/ \E a \in AllPairs : TimerFire(a)

Spec == Init /\ [][Next]_vars

\* The scheduling the runtime guarantees: an armed timer fires, and a
\* continuation whose promise has settled runs.  Nothing makes a collaborator
\* answer, so the steps of _crawlAd are not fair.
FairSpec ==
  /\ Spec
  /\ \A a \in AllPairs : WF_vars(TimerFire(a))
  /\ WF_vars(AwaitScrapeAd)

\* ------------------------------------------------------------------ claims
PagePairs == { a \in AllPairs : a[1] <= Len(ads) /\ a[2] <= NumPairs(a[1]) }
RowsOf(a, table) == { i \in 1 .. Len(db) : db[i].ad = a /\ db[i].table = table }
ClicksOf(a) == { i \in 1 .. Len(clicks) : clicks[i].ad = a }
Started(a) == seqpc[a] # "idle"
TimedOut(a) == outcome[a] = Rejected(TimeoutError)
SequenceFailed(a) == crawl[a].state = "rejected" /\ outcome[a] = crawl[a]
BidError == "pbjs.getBidResponses is not a function"

\* C1: when scrapeAd ends with the timeout failure for one Ad Handle Pair and
\* nothing else fails, scrapeAdsOnPage does not return before every Ad Handle
\* Pair of the page has been handed to scrapeAd.
C1_TimeoutSkipsOnlyThatAd ==
  \A a \in PagePairs :
    (TimedOut(a) /\ result = "returned" /\ logged \in {Undefined, Some(TimeoutError)})
      => \A b \in PagePairs : Started(b)

\* C2: for an ad whose timer fired before its sequence settled, the outcome
\* of scrapeAd is the timeout failure, clickAd is never invoked for it and at
\* most one ad row is persisted for it, whatever the abandoned sequence does.
C2_TimeoutOutcome ==
  \A a \in AllPairs :
    timer[a] = "fired" =>
      /\ outcome[a] = Rejected(TimeoutError)
      /\ ClicksOf(a) = {}
      /\ Cardinality(RowsOf(a, "ad")) <= 1

\* C2 witness: the timer won, and the abandoned sequence ran to completion
\* and persisted its ad row.
C2_Witness ==
  \E a \in AllPairs :
    /\ timer[a] = "fired"
    /\ seqpc[a] = "returned"
    /\ Cardinality(RowsOf(a, "ad")) = 1
    /\ result = "returned"

TableAt(p) ==
  CASE p = "archiveAd" -> "ad"
    [] p = "archiveExternalUrls" -> "external_urls"
    [] p = "archiveScrapedIFrame" -> "iframe"
    [] OTHER -> "none"

Unsettled == \E a \in AllPairs : Started(a) /\ outcome[a].state = "pending"

\* C4: every scrapeAd call settles, also when its sequence never completes,
\* and scrapeAdsOnPage then leaves the await of line 95.
C4_ScrapeAdSettles ==
  /\ Unsettled ~> ~Unsettled
  /\ (pc = "awaitScrapeAd") ~> (pc # "awaitScrapeAd")

\* C4 witness: the call ended with the timeout failure while the sequence
\* still stood at its first await.
C4_Witness ==
  \E a \in AllPairs :
    /\ TimedOut(a)
    /\ seqpc[a] = "scroll"
    /\ pc = "done"

\* C5: a settled outcome never changes; it is the id archiveAd returned, the
\* sequence's own failure unchanged, or the timeout failure; and when the
\* sequence settled first the timer is disarmed and stays so.
C5_OneOutcome ==
  /\ [](\A a \in AllPairs :
          /\ outcome[a].state = "resolved" =>
               /\ crawl[a] = outcome[a]
               /\ local[a].adId = Some(outcome[a].value)
          /\ (outcome[a].state = "rejected" /\ ~TimedOut(a)) => crawl[a] = outcome[a]
          /\ TimedOut(a) => timer[a] = "fired"
          /\ (crawl[a].state # "pending" /\ outcome[a] = crawl[a]) =>
               timer[a] = "cleared")
  /\ [][\A a \in AllPairs :
          /\ outcome[a].state # "pending" => outcome'[a] = outcome[a]
          /\ timer[a] = "cleared" => timer'[a] = "cleared"]_vars

\* C5 witness: a sequence failed before the timer fired; its failure is the
\* outcome and the timer is disarmed.
C5_Witness ==
  \E a \in AllPairs :
    /\ SequenceFailed(a)
    /\ crawl[a].reason = "archiveAd failed"
    /\ timer[a] = "cleared"
    /\ logged = Some("archiveAd failed")

\* C6: scrapeAdsOnPage never raises to its caller: whatever failed was logged
\* and the call has returned normally, with nothing of the page left to run.
C6_NeverRaises ==
  /\ result # "raised"
  /\ pc = "done" => result = "returned"
  /\ logged # Undefined => (pc = "done" /\ result = "returned")

\* C6 witness: detection failed, was logged, and the call returned.
C6_Witness ==
  /\ logged = Some("identifyAdsInDOM failed")
  /\ result = "returned"

\* C7: a failure of one ad's own sequence does not end the page: when it is
\* the only failure, scrapeAdsOnPage does not return before every Ad Handle
\* Pair of the page has been handed to scrapeAd.
C7_FailureStaysInsideAd ==
  \A a \in PagePairs :
    (SequenceFailed(a) /\ result = "returned"
       /\ logged \in {Undefined, Some(crawl[a].reason)})
      => \A b \in PagePairs : Started(b)

\* The failures of _crawlAd that come before scrapeAdContent's screenshot
\* sub-step
EarlyFailures == {"scrollIntoView failed", "outerHTML failed"}

\* The screenshot sub-step and the bid extraction of a capture are over.
ContentDone(a) ==
  \/ seqpc[a] \in {"archiveAd", "extractExternalUrls", "archiveExternalUrls",
                   "scrapeIFrames", "archiveScrapedIFrame", "returned"}
  \/ seqpc[a] = "thrown" /\ crawl[a].reason \notin EarlyFailures

\* C8: an exception of bid extraction never becomes the failure of the
\* capture: the sequence goes on to archiveAd with a record whose bid fields
\* are undefined.
C8_BidFailureDoesNotAbort ==
  \A a \in AllPairs :
    (getPrebidBidsForAd(pbjs, AdEl).threw /\ ContentDone(a))
      => /\ crawl[a] # Rejected(BidError)
         /\ local[a].adContent # Undefined
         /\ The(local[a].adContent).max_bid_price = Undefined
         /\ The(local[a].adContent).winning_bid = Undefined

\* C9: whenever the screenshot sub-step failed, scrapeAdContent returned a
\* record with html set and both screenshot fields unset, and the ad row is
\* written from that record.
C9_ScreenshotFailureDegrades ==
  \A a \in AllPairs :
    (local[a].screenshotFailed /\ ContentDone(a)) =>
      /\ local[a].adContent # Undefined
      /\ The(local[a].adContent).html # Undefined
      /\ The(local[a].adContent).screenshot = Undefined
      /\ The(local[a].adContent).screenshot_host = Undefined
      /\ \A i \in RowsOf(a, "ad") : db[i].content = local[a].adContent
      /\ seqpc[a] \in {"extractExternalUrls", "archiveExternalUrls",
                      "scrapeIFrames", "archiveScrapedIFrame", "returned"}
           => RowsOf(a, "ad") # {}

\* C10: in every record scrapeAdContent returns, with_context is the input
\* flag, and when the flag is off or the screenshot fields are unset the four
\* relative bounding-box fields are unset.
C10_BoxOnlyWithContextCapture ==
  \A a \in AllPairs :
    local[a].adContent # Undefined =>
      LET r == The(local[a].adContent) IN
        /\ r.with_context = withContext
        /\ (~withContext \/ r.screenshot = Undefined) =>
             /\ r.bb_x = Undefined
             /\ r.bb_y = Undefined
             /\ r.bb_width = Undefined
             /\ r.bb_height = Undefined

\* ---------------------------------------------------------------------- C11
MembersOf(c) == { a \in PagePairs : a[1] = c }
AdRowsOfCandidate(c) ==
  { i \in 1 .. Len(db) : db[i].table = "ad" /\ db[i].ad[1] = c }
AllArchived(c) == \A a \in MembersOf(c) : outcome[a].state = "resolved"

\* C11: a candidate that splitChumbox decomposes gets at most one chumbox
\* row, written before every ad row of its members, and each of those ad rows
\* carries that row's identifier and platform; once all N members are
\* archived there is exactly one chumbox row and exactly N ad rows, one per
\* member.  A candidate that does not decompose gets no chumbox row, and its
\* ad row (exactly one once archived) has no chumbox identifier and no
\* platform.
C11_ChumboxRows ==
  \A c \in 1 .. Len(ads) :
    LET cb == RowsOf(<<c, 0>>, "chumbox")
        rows == AdRowsOfCandidate(c)
    IN  IF ads[c] > 0
          THEN /\ Cardinality(cb) <= 1
               /\ \A i \in rows :
                    \E k \in cb : /\ k < i
                                  /\ db[i].chumbox_id = Some(db[k].id)
                                  /\ db[i].platform = db[k].platform
                                  /\ db[k].platform # Undefined
               /\ \A a \in MembersOf(c) : Cardinality(RowsOf(a, "ad")) <= 1
               /\ AllArchived(c) =>
                    /\ Cardinality(cb) = 1
                    /\ Cardinality(rows) = ads[c]
                    /\ \A a \in MembersOf(c) :
                         Cardinality(RowsOf(a, "ad")) = 1
          ELSE /\ cb = {}
               /\ Cardinality(rows) <= 1
               /\ \A i \in rows : /\ db[i].chumbox_id = Undefined
                                  /\ db[i].platform = Undefined
               /\ AllArchived(c) => Cardinality(rows) = 1

\* A chumbox of two archived members followed by an archived plain candidate.
C11_Witness ==
  /\ Len(ads) = 2 /\ ads[1] = 2 /\ ads[2] = 0
  /\ AllArchived(1) /\ AllArchived(2)
  /\ Cardinality(AdRowsOfCandidate(1)) = 2
  /\ Cardinality(AdRowsOfCandidate(2)) = 1
  /\ Cardinality(RowsOf(<<1, 0>>, "chumbox")) = 1

\* ---------------------------------------------------------------------- C12
DepthAllowsClick == parentDepth + 2 < 2 * maxPageCrawlDepth
BoxAllowsClick(b) ==
  b.present /\ b.height >= MinAdSize * Den /\ b.width >= MinAdSize * Den

\* Every clickAd call made so far: its pair was archived, the depth gate is
\* open, it is the only call for its pair, and it carries the page's own depth
\* and the identifier of the pair's ad row, which is already written.
ClicksAreSound ==
  /\ \A i \in 1 .. Len(clicks) :
       LET k == clicks[i] IN
         /\ k.ad \in PagePairs
         /\ outcome[k.ad] = Resolved(k.adId)
         /\ DepthAllowsClick
         /\ Cardinality(ClicksOf(k.ad)) = 1
         /\ k.depth = parentDepth
         /\ \E j \in RowsOf(k.ad, "ad") : db[j].id = k.adId
  /\ pc = "clickAd" =>
       /\ outcome[<<ci, mi>>].state = "resolved"
       /\ DepthAllowsClick
       /\ BoxAllowsClick(bounds)
       /\ ClicksOf(<<ci, mi>>) = {}

\* One step of the page: the await of scrapeAd goes on to read the box iff
\* the depth gate is open; a box that was read leads to the call iff it is
\* large enough; and a call is made exactly from the state that admits it,
\* for the current pair.
ClickStep ==
  /\ (pc = "awaitScrapeAd" /\ pc' # pc
        /\ outcome[<<ci, mi>>].state = "resolved") =>
       (pc' = "boundingBox" <=> DepthAllowsClick)
  /\ (pc = "boundingBox" /\ pc' # pc /\ result' = "running") =>
       (pc' = "clickAd" <=> BoxAllowsClick(bounds'))
  /\ (pc' = "clickAd" /\ pc # "clickAd") => pc = "boundingBox"
  /\ (pc' = "boundingBox" /\ pc # "boundingBox") => pc = "awaitScrapeAd"
  /\ (clicks' # clicks) <=> pc = "clickAd"
  /\ pc = "clickAd" =>
       /\ Len(clicks') = Len(clicks) + 1
       /\ SubSeq(clicks', 1, Len(clicks)) = clicks
       /\ clicks'[Len(clicks')].ad = <<ci, mi>>

\* C12: clickAd is called for a pair iff its scrapeAd succeeded,
\* parentDepth + 2 < 2 * maxPageCrawlDepth, and the click target's box, read
\* again, exists with height and width of at least 30; it is then called
\* exactly once, after the ad row was written, with the page's own depth and
\* that ad row's identifier.
C12_ClickGate == []ClicksAreSound /\ [][ClickStep]_vars

\* A page at depth 1 clicked an archived ad whose box sits exactly at the gate.
C12_Witness ==
  /\ parentDepth = 1
  /\ Len(clicks) = 1
  /\ bounds = Box(0, 0, MinAdSize * Den, MinAdSize * Den)
  /\ clicks[1].adId = outcome[<<1, 1>>].value

\* ---------------------------------------------------------------------- C13
\* n is the element `ad` or a descendant of it.
RECURSIVE Contains(_, _)
Contains(ad, n) ==
  IF n = Null THEN FALSE
  ELSE IF n = ad THEN TRUE
  ELSE Contains(ad, parentNode[n])

WholeLibrary ==
  pbjs.defined /\ pbjs.hasGetAllWinningBids /\ pbjs.hasGetBidResponses
WinsOnAd ==
  { i \in 1 .. Len(pbjs.winningBids) :
      Contains(AdEl, pbjs.winningBids[i].adUnitCode) }
UnitsOnAd ==
  { i \in 1 .. Len(pbjs.bidResponses) :
      Contains(AdEl, pbjs.bidResponses[i].key) }
FirstOf(S) == CHOOSE i \in S : \A j \in S : i <= j
BidsOf(a) == The(local[a].adContent)

\* C13: when the library reports a winning bid whose ad unit resolves to the
\* target element or to a descendant of it, the record of the ad has
\* winning_bid = true and max_bid_price = the price of the first such bid.
C13_WinningBid ==
  \A a \in AllPairs :
    (local[a].adContent # Undefined /\ WholeLibrary /\ WinsOnAd # {}) =>
      /\ BidsOf(a).winning_bid = Some(TRUE)
      /\ BidsOf(a).max_bid_price = Some(pbjs.winningBids[FirstOf(WinsOnAd)].cpm)

\* ---------------------------------------------------------------------- C14
RECURSIVE MaxPrice(_)
MaxPrice(S) ==
  LET p == CHOOSE q \in S : TRUE
  IN IF S = {p} THEN p ELSE Max(p, MaxPrice(S \ {p}))
PricesOf(unit) == { unit.bids[k] : k \in 1 .. Len(unit.bids) }
PricesOnAd == UNION { PricesOf(pbjs.bidResponses[i]) : i \in UnitsOnAd }

\* C14: when no winning bid is on the target element or a descendant and at
\* least one ad unit of the bid responses is, the record has
\* winning_bid = false and max_bid_price = the highest price among the
\* matching bids; when neither list has a match, or the page has no bidding
\* library, both fields are undefined.
C14_Fallback ==
  \A a \in AllPairs :
    local[a].adContent # Undefined =>
      /\ (WholeLibrary /\ WinsOnAd = {} /\ UnitsOnAd # {}) =>
           /\ BidsOf(a).winning_bid = Some(FALSE)
           /\ BidsOf(a).max_bid_price = Some(MaxPrice(PricesOnAd))
      /\ ((WholeLibrary /\ WinsOnAd = {} /\ UnitsOnAd = {}) \/ ~pbjs.defined) =>
           /\ BidsOf(a).winning_bid = Undefined
           /\ BidsOf(a).max_bid_price = Undefined

\* ---------------------------------------------------------------------- C15
\* The captures that reached the encoder.
Encoded == { a \in AllPairs : local[a].extract # Undefined }
CropOf(a) == The(local[a].extract)
\* b is the raw box abb rounded: the greatest whole pixel not after each
\* offset and the least whole extent not below each extent.
IsRounded(b, abb) ==
  /\ b.left * Den <= abb.x /\ abb.x < (b.left + 1) * Den
  /\ b.top * Den <= abb.y /\ abb.y < (b.top + 1) * Den
  /\ b.width * Den >= abb.width /\ abb.width > (b.width - 1) * Den
  /\ b.height * Den >= abb.height /\ abb.height > (b.height - 1) * Den

\* C15: with withContext = true and margin 150 the crop handed to the encoder
\* satisfies 0 <= left, 0 <= top, left + width <= viewport.width and
\* top + height <= viewport.height, and the relative ad box moved by the
\* crop's top-left corner is the rounded ad box.
C15_ContextCrop ==
  \A a \in Encoded :
    withContext =>
      LET crop == CropOf(a)
          rel == The(local[a].adInContextBB)
      IN /\ 0 <= crop.left
         /\ 0 <= crop.top
         /\ crop.left + crop.width <= browser.viewport.width
         /\ crop.top + crop.height <= browser.viewport.height
         /\ IsRounded([left |-> rel.left + crop.left, top |-> rel.top + crop.top,
                       width |-> rel.width, height |-> rel.height],
                      browser.box)

\* A context crop cut at the right and bottom edges of the viewport, with the
\* full margin on the left and on top.
C15_Witness ==
  \E a \in Encoded :
    /\ withContext
    /\ CropOf(a).left > 0 /\ CropOf(a).top > 0
    /\ CropOf(a).left + CropOf(a).width = browser.viewport.width
    /\ CropOf(a).top + CropOf(a).height = browser.viewport.height
    /\ The(local[a].adInContextBB).left = margin
    /\ browser.box.x + browser.box.width + margin * Den
         > browser.viewport.width * Den

\* ---------------------------------------------------------------------- C19
\* C19: the rounded box contains the raw box, floor(x) + ceil(width) >=
\* x + width and floor(y) + ceil(height) >= y + height, and with
\* withContext = false the crop handed to the encoder is that rounded box.
C19_OutwardRounding ==
  \A a \in Encoded :
    ~withContext =>
      LET crop == CropOf(a) IN
        /\ IsRounded(crop, browser.box)
        /\ (crop.left + crop.width) * Den >= browser.box.x + browser.box.width
        /\ (crop.top + crop.height) * Den >= browser.box.y + browser.box.height

\* ---------------------------------------------------------------------- C16
StepOrder ==
  <<"idle", "scroll", "sleep", "html", "screenshot", "bids", "archiveAd",
    "extractExternalUrls", "archiveExternalUrls", "scrapeIFrames",
    "archiveScrapedIFrame", "returned">>
RankOf(p) == CHOOSE i \in 1 .. Len(StepOrder) : StepOrder[i] = p

\* What has been produced for an ad so far came in the order HTML,
\* screenshot, bids, ad row, external-URL row, iframe rows, and each child
\* row follows the ad row and carries its identifier.
ArchiveInOrder ==
  \A a \in AllPairs :
    LET adRows == RowsOf(a, "ad")
        urlRows == RowsOf(a, "external_urls")
        frameRows == RowsOf(a, "iframe")
    IN /\ (seqpc[a] # "thrown" /\ RankOf(seqpc[a]) > RankOf("html")) =>
            local[a].html
       /\ local[a].extract # Undefined => local[a].html
       /\ local[a].adContent # Undefined =>
            /\ local[a].html
            /\ seqpc[a] \notin {"idle", "scroll", "sleep", "html", "screenshot", "bids"}
       /\ Cardinality(adRows) <= 1
       /\ Cardinality(urlRows) <= 1
       /\ \A j \in adRows :
            /\ local[a].adContent = db[j].content
            /\ local[a].adId = Some(db[j].id)
       /\ \A i \in urlRows \cup frameRows :
            \E j \in adRows : j < i /\ db[i].ad_id = db[j].id
       /\ \A i \in frameRows : \E j \in urlRows : j < i

\* One step of an ad's sequence moves it to the next step of the order (or
\* from the iframe scan straight to the end when there is no iframe), or
\* ends it with an exception; rows are written only by the step they belong to.
ArchiveStep ==
  \A a \in AllPairs :
    /\ seqpc'[a] # seqpc[a] =>
         \/ seqpc'[a] = "thrown"
         \/ RankOf(seqpc'[a]) = RankOf(seqpc[a]) + 1
         \/ seqpc[a] = "scrapeIFrames" /\ seqpc'[a] = "returned"
              /\ iframesInAd = 0
    /\ \A t \in {"ad", "external_urls", "iframe"} :
         RowsOf(a, t)' # RowsOf(a, t) =>
           seqpc[a] = CASE t = "ad" -> "archiveAd"
                        [] t = "external_urls" -> "archiveExternalUrls"
                        [] t = "iframe" -> "archiveScrapedIFrame"

\* C16: within one ad's archive sequence the steps run in the order HTML
\* capture, screenshot, bid extraction, archiveAd, archiveExternalUrls,
\* archiveScrapedIFrame, each after the one before it returned; no
\* external-URL or iframe row is written before archiveAd returned the ad's
\* identifier, and each of them carries that identifier.
C16_ArchiveOrder == []ArchiveInOrder /\ [][ArchiveStep]_vars

\* An ad whose sequence returned after writing all three kinds of rows.
C16_Witness ==
  \E a \in AllPairs :
    /\ seqpc[a] = "returned"
    /\ RowsOf(a, "ad") # {}
    /\ RowsOf(a, "external_urls") # {}
    /\ RowsOf(a, "iframe") # {}

\* ---------------------------------------------------------------------- C17
InProgress(a) == seqpc[a] \notin {"idle", "returned", "thrown"}

\* C17: at any time at most one ad of the page has a capture sequence in
\* progress, a sequence abandoned by its timer included, and it is the
\* sequence of the pair the page loop stands at.
C17_OneSequenceAtATime ==
  /\ Cardinality({ a \in AllPairs : InProgress(a) }) <= 1
  /\ \A a \in AllPairs : InProgress(a) => a = <<ci, mi>>

\* The second ad of a page was abandoned by its timer and is still running
\* after the first one returned; a third pair was never started.
C17_Witness ==
  \E a \in PagePairs, b \in PagePairs, c \in PagePairs :
    /\ seqpc[a] = "returned"
    /\ TimedOut(b) /\ InProgress(b)
    /\ seqpc[c] = "idle"

\* ---------------------------------------------------------------------- C18
AdDomainRows == { i \in 1 .. Len(db) : db[i].table = "ad_domain" }
LoopsFinished ==
  /\ \A a \in PagePairs : seqpc[a] = "returned" /\ outcome[a].state = "resolved"
  /\ ci = Len(ads)
  /\ Len(ads) > 0 => mi = NumPairs(ci)

\* The matcher runs, and ad_domain rows exist, only after every pair of every
\* candidate was processed; a call that returns without an error has no
\* reported mutation left to persist.
MatchAfterLoops ==
  /\ pc \in {"match", "insertAdDomain"} => LoopsFinished
  /\ pc \in {"detect", "match"} => AdDomainRows = {} /\ mutations = 0
  /\ AdDomainRows # {} => LoopsFinished
  /\ mutations > 0 => pc \in {"insertAdDomain", "done"} /\ LoopsFinished
  /\ (result = "returned" /\ logged = Undefined) => mutations = 0

\* The matcher is left once and never entered again; only the insert loop
\* writes ad_domain rows, one per step, each taking one mutation off the
\* reported ones.
MatchStep ==
  /\ pc \in {"insertAdDomain", "done"} => pc' \in {"insertAdDomain", "done"}
  /\ pc = "match" => pc' \in {"match", "insertAdDomain", "done"}
  /\ pc # "insertAdDomain" => AdDomainRows' = AdDomainRows
  /\ (pc # "match" /\ pc # "insertAdDomain") => mutations' = mutations
  /\ pc = "insertAdDomain" =>
       \/ /\ Cardinality(AdDomainRows') = Cardinality(AdDomainRows) + 1
          /\ mutations' = mutations - 1
       \/ /\ AdDomainRows' = AdDomainRows
          /\ mutations' = mutations

\* C18: matchDOMUpdateToAd is called at most once per call of
\* scrapeAdsOnPage, only after every pair of every candidate was processed;
\* each mutation it reports is persisted as exactly one ad_domain row, and no
\* ad_domain row is written before the ad loop finished.
C18_MatchOnceAfterLoops == []MatchAfterLoops /\ [][MatchStep]_vars

\* A page of two ads returned without error after persisting every mutation
\* the matcher reported.
C18_Witness ==
  /\ Cardinality(PagePairs) >= 2
  /\ result = "returned" /\ logged = Undefined
  /\ Cardinality(AdDomainRows) = MaxMutations

\* ---------------------------------------------------------------------- C20
\* The members of candidate c whose identifier the page loop has recorded:
\* scrapeAd returned it and the await of line 95 is over.
RecordedMembers(c) ==
  { m \in 1 .. MaxMembers :
      /\ <<c, m>> \in PagePairs
      /\ outcome[<<c, m>>].state = "resolved"
      /\ ~(pc = "awaitScrapeAd" /\ c = ci /\ m = mi) }
LastOf(S) == CHOOSE m \in S : \A n \in S : n <= m

\* C20: the element-to-identifier map handed to matchDOMUpdateToAd is keyed
\* by detected candidate, with at most one entry per candidate; for a chumbox
\* with several archived members the entry is the identifier of the member
\* archived last, and the identifiers of the earlier members are absent.
C20_MapKeyedByCandidate ==
  \A c \in 1 .. MaxCands :
    /\ Cardinality(adHandleToAdId[c]) <= 1
    /\ IF c <= Len(ads) /\ RecordedMembers(c) # {}
         THEN LET last == LastOf(RecordedMembers(c)) IN
                /\ adHandleToAdId[c] = Some(outcome[<<c, last>>].value)
                /\ \A m \in RecordedMembers(c) \ {last} :
                     outcome[<<c, m>>].value \notin adHandleToAdId[c]
         ELSE adHandleToAdId[c] = Undefined

\* The matcher is reached with a chumbox of at least two archived members,
\* whose entry is the identifier of the last one.
C20_Witness ==
  /\ pc = "match"
  /\ \E c \in 1 .. Len(ads) :
       /\ ads[c] >= 2
       /\ adHandleToAdId[c] = Some(outcome[<<c, ads[c]>>].value)
       /\ outcome[<<c, 1>>].value \notin adHandleToAdId[c]

====
